---- MODULE Spec2Model ----
(***************************************************************************)
(* EinsteinVlasovSolver.solve (geco/evsolver.py): the self-consistent      *)
(* field iteration and the final solution characteristics.                 *)
(*                                                                         *)
(* A finite-element vector is one integer degree of freedom.  The damping  *)
(* factor is the fixed-point number theta / ThetaDen and a product by it   *)
(* rounds down.  The scale constant C is the exact fraction <<num, den>>.  *)
(* The results of the external collaborators (assemble of the mass form,   *)
(* the Krylov solve, the residual norm) are drawn from bounded sets, anew  *)
(* at every call.  The mass form integrates a matter density: an assembled *)
(* mass is >= 0, and the target rest mass is > 0.  A solve that fails      *)
(* raises inside the collaborator and is not modelled.                     *)
(*                                                                         *)
(* ver counts the damped updates of each field, and every assembly records *)
(* the ver it ran against, so that "which fields did this assembly read"   *)
(* is part of the state; order lists the steps of the current pass.        *)
(***************************************************************************)
EXTENDS Integers, Sequences, FiniteSets

\* ---------------------------------------------------------------- bounds
MaxIter == 3        \* largest maxiter tried
MaxVal == 2         \* field values range over 0..MaxVal
MaxMass == 2        \* assembled masses range over 0..MaxMass
MaxRes == 1         \* a residual norm is 0 or MaxRes
NumAnsatz == 2      \* matter-model instances extracted from the model
ThetaDen == 2       \* theta is a multiple of 1/ThetaDen in [0, 1]

\* ------------------------------------------------------ program constants
NumEqs == 4         \* for i in range(4)
BBEq == 1           \* if i == 1: extra left-hand side assembly

Eqs == 0..(NumEqs - 1)         \* equations NU, BB, MU, WW
Ansatzes == 1..NumAnsatz       \* ansatzes extracted from the model
SolVals == {0, MaxVal}         \* what a linear solve may return
MassVals == 0..MaxMass         \* what assemble(_mass) may return
TargetMasses == {MaxMass}      \* parameters.discretization.mass
ResVals == {0, MaxRes}         \* what the residual norm may be
Tolerances == {0, MaxRes}      \* tolerance: 0 is below every residual
Thetas == {0, 1, ThetaDen}     \* theta = 0, 1/ThetaDen, 1

VARIABLES
    maxiter, theta, tol, m,   \* discretization parameters
    U0,                       \* the initial data, as given to the loop
    U,                        \* the fields NU, BB, MU, WW (U[0..3])
    Ys,                       \* solution vectors of the linear solves
    C,                        \* scale constant, a fraction <<num, den>>
    _m,                       \* last assembled unscaled mass
    iter, i,                  \* loop variables
    pc,                       \* position in solve
    residual,                 \* aggregate residual of the last evaluation
    broke,                    \* the loop was left by break
    report,                   \* "none", "FAILED" or "CONVERGED"
    err,                      \* error raised, "none" if none
    data,                     \* self.data, <<>> until stored
    ret,                      \* the returned fields, <<>> until returned
    AsCount, AsBcCount,       \* assemble / bc.apply calls per matrix As[j]
    resetCount, readCount, setFieldsCount,  \* matter-model calls per ansatz
    ver,                      \* damped updates applied to each field
    bsRead,                   \* ver seen by the assembly of each bs[j]
    massRead,                 \* ver seen by the last assembly of _mass
    resRead,                  \* ver seen by the last residual evaluation
    rhoRead,                  \* ver seen by the last projection of RHO
    order                     \* steps taken in the current iteration

vars == <<maxiter, theta, tol, m, U0, U, Ys, C, _m, iter, i, pc, residual, broke,
          report, err, data, ret, AsCount, AsBcCount, resetCount, readCount,
          setFieldsCount, ver, bsRead, massRead, resRead, rhoRead, order>>

params == <<maxiter, theta, tol, m, U0>>
counters == <<AsCount, AsBcCount, resetCount, readCount, setFieldsCount>>
reads == <<bsRead, massRead, resRead, rhoRead>>

\* --------------------------------------------------------------- helpers

\* bcs = [bci_NU, bci_BB, bci_MU, bci_WW, bca_MU]: conditions registered for j
NumBcs(j) == IF j = 2 THEN 2 ELSE 1

\* m / _m
ScaleConstant(mass, um) == <<mass, um>>

\* the fraction c is > 0
Positive(c) == c[1] * c[2] > 0

\* faulty variant: the guard tests the sign
IsNegativeMass(um) == um < 0

\* if _m == 0.0
IsZeroMass(um) == um = 0

\* X *= (1.0 - theta)
ScaleOld(X, t) == ((ThetaDen - t) * X) \div ThetaDen

\* Ys[i] *= theta
ScaleNew(Y, t) == (t * Y) \div ThetaDen

\* faulty variant: the weights of the old field and of the solution are swapped
DampedUpdateSwapped(X, Y, t) == ScaleNew(X, t) + ScaleOld(Y, t)

\* X += Ys[i], after the two scalings
DampedUpdate(X, Y, t) == ScaleOld(X, t) + ScaleNew(Y, t)

\* faulty variant: the extra assembly is done for the wrong equation
NeedsLhsAssemblyWrongEq(j) == j = BBEq + 1

\* if i == 1
NeedsLhsAssembly(j) == j = BBEq

\* faulty variant: the iter > 0 guard is missing
ConvergenceTestNoGuard(res, tolerance, it) == res < tolerance

\* residual < tol and iter > 0
ConvergenceTest(res, tolerance, it) == res < tolerance /\ it > 0

\* faulty variant: only the first instance is reset
ResetFirst(rc) == [a \in Ansatzes |-> IF a = 1 THEN rc[a] + 1 ELSE rc[a]]

\* for ansatz in ansatzes: ansatz.reset()
ResetAll(rc) == [a \in Ansatzes |-> rc[a] + 1]

\* faulty variant: an assembly reads a snapshot of the fields taken at the start of
\* the pass (Jacobi)
FieldsReadAtPassStart(v) == [k \in Eqs |-> iter]

\* the forms hold the Function objects themselves: an assembly reads the
\* fields as they are when it runs
FieldsRead(v) == v

\* X = U[i].vector()
UpdateTarget(j) == j

\* faulty variant: C is not recomputed after the loop
FinalCStale(mass, um, c) == c

\* _compute_solution_characteristics: C.assign(m / _m)
FinalC(mass, um, c) == ScaleConstant(mass, um)

\* faulty variant: the loop bound is off by one
HasNextOffByOne(it, n) == it + 1 <= n

\* xrange(maxiter) has a next index
HasNext(it, n) == it + 1 < n

\* iter == maxiter - 1
ReportsFailure(it, n) == it = n - 1

\* ------------------------------------------------------------------ Init

Init ==
    /\ maxiter \in 1..MaxIter
    /\ theta \in Thetas
    /\ tol \in Tolerances
    /\ m \in TargetMasses
    /\ U0 = [j \in Eqs |-> MaxVal]
    /\ U = U0
    /\ Ys = <<>>
    /\ C = <<1, 1>>
    /\ _m = 0
    /\ iter = -1
    /\ i = 0
    /\ pc = "init_ansatzes"
    /\ residual = 0
    /\ broke = FALSE
    /\ report = "none"
    /\ err = "none"
    /\ data = <<>>
    /\ ret = <<>>
    /\ AsCount = [j \in Eqs |-> 0]
    /\ AsBcCount = [j \in Eqs |-> 0]
    /\ resetCount = [a \in Ansatzes |-> 0]
    /\ readCount = [a \in Ansatzes |-> 0]
    /\ setFieldsCount = [a \in Ansatzes |-> 0]
    /\ ver = [j \in Eqs |-> 0]
    /\ bsRead = [j \in Eqs |-> <<>>]
    /\ massRead = <<>>
    /\ resRead = <<>>
    /\ rhoRead = <<>>
    /\ order = <<>>

\* --------------------------------------------------------------- actions

\* for ansatz in ansatzes: set_fields, set_integration_parameters, read_parameters
InitAnsatzes ==
    /\ pc = "init_ansatzes"
    /\ setFieldsCount' = [a \in Ansatzes |-> setFieldsCount[a] + 1]
    /\ readCount' = [a \in Ansatzes |-> readCount[a] + 1]
    /\ pc' = "create"
    /\ UNCHANGED <<params, U, Ys, C, _m, iter, i, residual, broke, report, err,
                   data, ret, AsCount, AsBcCount, resetCount, ver, reads, order>>

\* Ys = copies of U; assemble every matrix once and apply all bcs
CreateAndAssemble ==
    /\ pc = "create"
    /\ Ys' = U
    /\ AsCount' = [j \in Eqs |-> AsCount[j] + 1]
    /\ AsBcCount' = [j \in Eqs |-> AsBcCount[j] + NumBcs(j)]
    /\ pc' = "for"
    /\ UNCHANGED <<params, U, C, _m, iter, i, residual, broke, report, err,
                   data, ret, resetCount, readCount, setFieldsCount, ver,
                   reads, order>>

\* for iter in xrange(maxiter): next pass
ForNext ==
    /\ pc = "for"
    /\ HasNext(iter, maxiter)
    /\ iter' = iter + 1
    /\ order' = <<>>
    /\ pc' = "reset"
    /\ UNCHANGED <<params, U, Ys, C, _m, i, residual, broke, report, err, data,
                   ret, counters, ver, reads>>

\* for iter in xrange(maxiter): exhausted
ForEnd ==
    /\ pc = "for"
    /\ ~HasNext(iter, maxiter)
    /\ pc' = "report"
    /\ UNCHANGED <<params, U, Ys, C, _m, iter, i, residual, broke, report, err,
                   data, ret, counters, ver, reads, order>>

\* for ansatz in ansatzes: ansatz.reset()
ResetAnsatzes ==
    /\ pc = "reset"
    /\ resetCount' = ResetAll(resetCount)
    /\ order' = Append(order, <<"reset", -1>>)
    /\ pc' = "mass"
    /\ UNCHANGED <<params, U, Ys, C, _m, iter, i, residual, broke, report, err,
                   data, ret, AsCount, AsBcCount, readCount, setFieldsCount,
                   ver, reads>>

\* _m = assemble(_mass)
AssembleMass ==
    /\ pc = "mass"
    /\ \E v \in MassVals : _m' = v
    /\ massRead' = ver
    /\ order' = Append(order, <<"mass", -1>>)
    /\ pc' = "zero_check"
    /\ UNCHANGED <<params, U, Ys, C, iter, i, residual, broke, report, err,
                   data, ret, counters, ver, bsRead, resRead, rhoRead>>

\* faulty variant: the zero mass is reported with warning() and the pass goes on
ZeroMassWarning ==
    /\ pc = "zero_check"
    /\ IsZeroMass(_m)
    /\ err' = "Zero mass distribution."
    /\ i' = 0
    /\ pc' = "rhs"
    /\ UNCHANGED <<params, U, Ys, C, _m, iter, residual, broke, report,
                   data, ret, counters, ver, reads, order>>

\* if _m == 0.0: error("Zero mass distribution.")
ZeroMassError ==
    /\ pc = "zero_check"
    /\ IsZeroMass(_m)
    /\ err' = "Zero mass distribution."
    /\ pc' = "aborted"
    /\ UNCHANGED <<params, U, Ys, C, _m, iter, i, residual, broke, report,
                   data, ret, counters, ver, reads, order>>

\* C.assign(m / _m), then for i in range(4)
AssignC ==
    /\ pc = "zero_check"
    /\ ~IsZeroMass(_m)
    /\ C' = ScaleConstant(m, _m)
    /\ i' = 0
    /\ order' = Append(order, <<"C", -1>>)
    /\ pc' = "rhs"
    /\ UNCHANGED <<params, U, Ys, _m, iter, residual, broke, report, err, data,
                   ret, counters, ver, reads>>

\* assemble(Ls[i], tensor=bs[i])
AssembleRhs ==
    /\ pc = "rhs"
    /\ bsRead' = [bsRead EXCEPT ![i] = FieldsRead(ver)]
    /\ order' = Append(order, <<"rhs", i>>)
    /\ pc' = "bc"
    /\ UNCHANGED <<params, U, Ys, C, _m, iter, i, residual, broke, report, err,
                   data, ret, counters, ver, massRead, resRead, rhoRead>>

\* [bc.apply(bs[i]) for j, bc in bcs if j == i]
ApplyBcRhs ==
    /\ pc = "bc"
    /\ order' = Append(order, <<"bc", i>>)
    /\ pc' = IF NeedsLhsAssembly(i) THEN "lhs" ELSE "solve"
    /\ UNCHANGED <<params, U, Ys, C, _m, iter, i, residual, broke, report, err,
                   data, ret, counters, ver, reads>>

\* if i == 1: assemble(as_[i], tensor=As[i]); apply its bcs to As[i]
AssembleLhs ==
    /\ pc = "lhs"
    /\ AsCount' = [AsCount EXCEPT ![i] = @ + 1]
    /\ AsBcCount' = [AsBcCount EXCEPT ![i] = @ + NumBcs(i)]
    /\ order' = Append(order, <<"lhs", i>>)
    /\ pc' = "solve"
    /\ UNCHANGED <<params, U, Ys, C, _m, iter, i, residual, broke, report, err,
                   data, ret, resetCount, readCount, setFieldsCount, ver,
                   reads>>

\* solver.solve(As[i], Ys[i], bs[i])
Solve ==
    /\ pc = "solve"
    /\ \E y \in SolVals : Ys' = [Ys EXCEPT ![i] = y]
    /\ order' = Append(order, <<"solve", i>>)
    /\ pc' = "update"
    /\ UNCHANGED <<params, U, C, _m, iter, i, residual, broke, report, err,
                   data, ret, counters, ver, reads>>

\* X = U[i].vector(); X *= (1.0 - theta); Ys[i] *= theta; X += Ys[i]
Update ==
    /\ pc = "update"
    /\ U' = [U EXCEPT ![UpdateTarget(i)] = DampedUpdate(@, Ys[i], theta)]
    /\ Ys' = [Ys EXCEPT ![i] = ScaleNew(@, theta)]
    /\ ver' = [ver EXCEPT ![UpdateTarget(i)] = @ + 1]
    /\ order' = Append(order, <<"update", i>>)
    /\ IF i + 1 < NumEqs
         THEN i' = i + 1 /\ pc' = "rhs"
         ELSE i' = i /\ pc' = "project"
    /\ UNCHANGED <<params, C, _m, iter, residual, broke, report, err, data,
                   ret, counters, reads>>

\* project(density, mesh=mesh, function=RHO)
ProjectDensity ==
    /\ pc = "project"
    /\ rhoRead' = FieldsRead(ver)
    /\ order' = Append(order, <<"project", -1>>)
    /\ pc' = "residual"
    /\ UNCHANGED <<params, U, Ys, C, _m, iter, i, residual, broke, report, err,
                   data, ret, counters, ver, bsRead, massRead, resRead>>

\* fs = [assemble(F) for F in Fs]; bc0; residual = max of the linf norms
ComputeResidual ==
    /\ pc = "residual"
    /\ \E r \in ResVals : residual' = r
    /\ resRead' = FieldsRead(ver)
    /\ order' = Append(order, <<"residual", -1>>)
    /\ pc' = "check"
    /\ UNCHANGED <<params, U, Ys, C, _m, iter, i, broke, report, err, data,
                   ret, counters, ver, bsRead, massRead, rhoRead>>

\* if residual < tol and iter > 0: break
Break ==
    /\ pc = "check"
    /\ ConvergenceTest(residual, tol, iter)
    /\ broke' = TRUE
    /\ pc' = "report"
    /\ UNCHANGED <<params, U, Ys, C, _m, iter, i, residual, report, err, data,
                   ret, counters, ver, reads, order>>

\* the convergence test fails: back to the loop head
Continue ==
    /\ pc = "check"
    /\ ~ConvergenceTest(residual, tol, iter)
    /\ pc' = "for"
    /\ UNCHANGED <<params, U, Ys, C, _m, iter, i, residual, broke, report, err,
                   data, ret, counters, ver, reads, order>>

\* if iter == maxiter - 1: warning(FAILED) else: info(CONVERGED)
Report ==
    /\ pc = "report"
    /\ report' = IF ReportsFailure(iter, maxiter) THEN "FAILED" ELSE "CONVERGED"
    /\ pc' = "characteristics"
    /\ UNCHANGED <<params, U, Ys, C, _m, iter, i, residual, broke, err, data,
                   ret, counters, ver, reads, order>>

\* _compute_solution_characteristics: _m = assemble(_mass)
FinalMass ==
    /\ pc = "characteristics"
    /\ \E v \in MassVals : _m' = v
    /\ massRead' = ver
    /\ pc' = "final_scale"
    /\ UNCHANGED <<params, U, Ys, C, iter, i, residual, broke, report, err,
                   data, ret, counters, ver, bsRead, resRead, rhoRead, order>>

\* C.assign(m / _m) with _m == 0.0: the float division raises
FinalZeroDivision ==
    /\ pc = "final_scale"
    /\ _m = 0
    /\ err' = "ZeroDivisionError"
    /\ pc' = "aborted"
    /\ UNCHANGED <<params, U, Ys, C, _m, iter, i, residual, broke, report,
                   data, ret, counters, ver, reads, order>>

\* C.assign(m / _m); self.data = {"ansatz_coefficient": float(C), "mass": m, ...}
FinalScale ==
    /\ pc = "final_scale"
    /\ _m # 0
    /\ C' = FinalC(m, _m, C)
    /\ data' = [ansatz_coefficient |-> C', mass |-> m]
    /\ pc' = "return"
    /\ UNCHANGED <<params, U, Ys, _m, iter, i, residual, broke, report, err,
                   ret, counters, ver, reads, order>>

\* return NU, BB, MU, WW, RHO, self.data (_postprocess, of SolverBase, writes
\* and plots the solutions and leaves the fields as they are)
Return ==
    /\ pc = "return"
    /\ ret' = U
    /\ pc' = "done"
    /\ UNCHANGED <<params, U, Ys, C, _m, iter, i, residual, broke, report, err,
                   data, counters, ver, reads, order>>

Next ==
    \/ InitAnsatzes
    \/ CreateAndAssemble
    \/ ForNext
    \/ ForEnd
    \/ ResetAnsatzes
    \/ AssembleMass
    \/ ZeroMassError
    \/ AssignC
    \/ AssembleRhs
    \/ ApplyBcRhs
    \/ AssembleLhs
    \/ Solve
    \/ Update
    \/ ProjectDensity
    \/ ComputeResidual
    \/ Break
    \/ Continue
    \/ Report
    \/ FinalMass
    \/ FinalZeroDivision
    \/ FinalScale
    \/ Return

Spec == Init /\ [][Next]_vars

\* ------------------------------------------------- the claimed properties

InLoop == pc \in {"reset", "mass", "zero_check", "rhs", "bc", "lhs", "solve",
                  "update", "project", "residual", "check"}
AfterAssignC == pc \in {"rhs", "bc", "lhs", "solve", "update", "project",
                        "residual", "check"}
PostLoop == pc \in {"report", "characteristics", "final_scale", "return", "done"}
               \/ err = "ZeroDivisionError"
Returned == pc = "done"

InOrder(step) == \E k \in 1..Len(order) : order[k] = step
IsPrefix(s, t) == LET tt == t IN Len(s) <= Len(tt) /\ \A k \in 1..Len(s) : s[k] = tt[k]

\* passes of the loop body begun so far
Passes == iter + 1

\* the steps of one outer iteration, in the claimed order
FixedOrder ==
    <<<<"reset", -1>>, <<"mass", -1>>, <<"C", -1>>,
      <<"rhs", 0>>, <<"bc", 0>>, <<"solve", 0>>, <<"update", 0>>,
      <<"rhs", 1>>, <<"bc", 1>>, <<"lhs", 1>>, <<"solve", 1>>, <<"update", 1>>,
      <<"rhs", 2>>, <<"bc", 2>>, <<"solve", 2>>, <<"update", 2>>,
      <<"rhs", 3>>, <<"bc", 3>>, <<"solve", 3>>, <<"update", 3>>,
      <<"project", -1>>, <<"residual", -1>>>>

\* C1: once the run is reported, it is reported as not converged if and only
\* if the convergence test succeeded in no executed iteration (the loop was
\* not left by break); a success in the last permitted iteration counts.
C1_FailedIffNeverConverged ==
    report # "none" => (report = "FAILED" <=> ~broke)

\* C2: a zero assembled mass aborts with "Zero mass distribution." in the same
\* iteration, right after the mass evaluation: C is not reassigned, no
\* equation is assembled, solved or updated, nothing runs afterwards, and no
\* diagnostics record or result exists.
C2_ZeroMassAborts ==
    /\ AfterAssignC => _m # 0
    /\ (pc = "zero_check" /\ _m = 0) => (ENABLED ZeroMassError /\ ~ENABLED AssignC)
    /\ err = "Zero mass distribution." =>
         /\ pc = "aborted"
         /\ _m = 0
         /\ order = <<<<"reset", -1>>, <<"mass", -1>>>>
         /\ massRead = ver
         \* no field updated and no right-hand side assembled in this pass
         /\ \A j \in Eqs : ver[j] = iter /\ bsRead[j] # ver
         /\ data = <<>>
         /\ ret = <<>>
    /\ pc = "aborted" => ~ENABLED Next

C2_AbortInSecondPass ==
    err = "Zero mass distribution." /\ iter = 1

\* C3: the loop is never left by break at iteration 0: with maxiter >= 2 a
\* second pass follows iteration 0 whatever its residual, and a break only
\* happens at an iteration index >= 1.
C3_NoBreakAtIterationZero ==
    /\ broke => iter >= 1
    /\ (pc = "check" /\ iter = 0) => ~ENABLED Break
    /\ (pc = "for" /\ iter = 0 /\ maxiter >= 2) => ENABLED ForNext
    /\ (PostLoop /\ maxiter >= 2) => iter >= 1

C3_SecondPassAfterSmallResidual ==
    pc = "reset" /\ iter = 1 /\ residual < tol

\* C4: the steps of an outer iteration occur in the fixed order reset, mass,
\* C, then per equation 0..3 (rhs, bcs, [lhs of BB], solve, update), then the
\* projection, then the residual.  The mass is evaluated after the reset of
\* every instance, the right-hand side of equation j reads the fields
\* already updated in this pass for j' < j and not yet updated for j' >= j,
\* and the projection and the residual read all four updated fields.
C4_FixedOrder ==
    LET taken == {order[k] : k \in 1..Len(order)} IN
    /\ IsPrefix(order, FixedOrder)
    /\ (InLoop /\ <<"mass", -1>> \in taken) =>
         /\ \A k \in Eqs : massRead[k] = iter
         /\ \A a \in Ansatzes : resetCount[a] = Passes
    /\ \A j \in Eqs : <<"rhs", j>> \in taken =>
         \A k \in Eqs : bsRead[j][k] = (IF k < j THEN iter + 1 ELSE iter)
    /\ \A j \in Eqs : <<"update", j>> \in taken <=> (iter >= 0 /\ ver[j] = iter + 1)
    /\ <<"project", -1>> \in taken => \A k \in Eqs : rhoRead[k] = iter + 1
    /\ <<"residual", -1>> \in taken => \A k \in Eqs : resRead[k] = iter + 1

C4_SecondPassComplete ==
    pc = "check" /\ iter = 1 /\ order = FixedOrder

\* C5: the matrices of equations 0, 2 and 3 are assembled once, before the
\* loop, with their boundary conditions applied once; the matrix of the BB
\* equation is assembled, with its boundary conditions, once more in every
\* pass of the loop.
LhsPasses ==
    IF iter < 0 THEN 0
    ELSE iter + (IF InOrder(<<"lhs", BBEq>>) THEN 1 ELSE 0)

C5_MatrixAssemblies ==
    pc \notin {"init_ansatzes", "create"} =>
        /\ \A j \in Eqs \ {BBEq} :
              AsCount[j] = 1 /\ AsBcCount[j] = NumBcs(j)
        /\ AsCount[BBEq] = 1 + LhsPasses
        /\ AsBcCount[BBEq] = NumBcs(BBEq) * (1 + LhsPasses)
        /\ (PostLoop \/ pc = "for") => AsCount[BBEq] = 1 + Passes

C5_ThreePassesDone ==
    Returned /\ iter = 2 /\ AsCount[BBEq] = 4

\* C6: with theta = 0 every field keeps the value it had before the first
\* iteration, whatever the linear solves return.
C6_ThetaZeroFreezesFields ==
    theta = 0 =>
        /\ U = U0
        /\ Returned => ret = U0

C6_FrozenAfterTwoPasses ==
    /\ theta = 0 /\ Returned /\ iter >= 1
    /\ \A j \in Eqs : ver[j] >= 2 /\ U0[j] # 0

\* C7: the loop runs at most maxiter passes, every guarded step has a
\* successor, failing to converge raises no error (an error only comes from
\* a zero mass), and solve returns the fields of the last pass with no update
\* applied after its residual evaluation; with maxiter = 1 and a tolerance
\* no residual is below, exactly one pass runs, the run is reported as not
\* converged and the returned fields are those of that pass.
C7_TerminatesWithLastIterate ==
    /\ iter < maxiter
    /\ \A j \in Eqs : ver[j] <= maxiter
    /\ pc \in {"for", "check", "zero_check", "final_scale"} => ENABLED Next
    /\ err # "none" => _m = 0
    /\ Returned =>
         /\ ret = U
         /\ resRead = ver
         /\ ver = [k \in Eqs |-> Passes]
    /\ (PostLoop /\ maxiter = 1) =>
         /\ iter = 0
         /\ ~broke
         /\ report \in {"none", "FAILED"}
         /\ ver = [k \in Eqs |-> 1]

C7_SinglePassReturned ==
    maxiter = 1 /\ tol = 0 /\ Returned /\ report = "FAILED" /\ err = "none"

C9_FinalCoefficient ==
    pc \in {"return", "done"} =>
        /\ data.mass = m
        /\ data.ansatz_coefficient = C
        /\ data.ansatz_coefficient[2] # 0
        /\ data.ansatz_coefficient[1] * _m = data.mass * data.ansatz_coefficient[2]
        /\ massRead = ver
        /\ Returned => (ret = U /\ massRead = [k \in Eqs |-> Passes])

C9_RecordReturned ==
    Returned /\ iter >= 1 /\ data.ansatz_coefficient = <<m, 1>> /\ m # 1

\* C10 as claimed: over a run of n passes every matter-model instance sees n
\* calls of read_parameters() and n calls of reset().
C10_ReadParametersPerIteration ==
    Returned => \A a \in Ansatzes : readCount[a] = Passes /\ resetCount[a] = Passes

\* C10 as amended: read_parameters() (like set_fields()) is called exactly
\* once per run on every instance, before the loop; reset() is called
\* exactly once per pass on every instance, before the mass is evaluated.
ResetPasses ==
    IF iter < 0 THEN 0
    ELSE iter + (IF InOrder(<<"reset", -1>>) THEN 1 ELSE 0)

C10_ReadOnceResetPerIteration ==
    \A a \in Ansatzes :
        /\ readCount[a] = (IF pc = "init_ansatzes" THEN 0 ELSE 1)
        /\ setFieldsCount[a] = readCount[a]
        /\ resetCount[a] = ResetPasses
        /\ InOrder(<<"mass", -1>>) => resetCount[a] = Passes
        /\ Returned => resetCount[a] = Passes

C10_ThreePassesReturned ==
    Returned /\ iter = 2 /\ \A a \in Ansatzes : readCount[a] = 1 /\ resetCount[a] = 3
====
